---------------------------- MODULE Spec2Model ----------------------------
(***************************************************************************)
(* A model of dataset_utils.py: the dataset reorganizer that, for every    *)
(* task folder under a root, gathers the images of image_inputs/, sorts    *)
(* them by numeric filename prefix and copies or moves them to             *)
(* trajectory/step_{i}_screenshot<ext>.                                    *)
(*                                                                         *)
(* File names are sequences of one-character strings, so that the regular  *)
(* expression, the suffix computation, the lower-casing and the string     *)
(* comparison of the code are computed and not assumed.                    *)
(***************************************************************************)
EXTENDS Integers, Sequences, FiniteSets, TLC

----------------------------------------------------------------------------
(* Characters and strings                                                  *)

Digits == << "0", "1", "2", "3", "4", "5", "6", "7", "8", "9" >>

Uppers ==
    << "A", "B", "C", "D", "E", "F", "G", "H", "I", "J", "K", "L", "M",
       "N", "O", "P", "Q", "R", "S", "T", "U", "V", "W", "X", "Y", "Z" >>

Lowers ==
    << "a", "b", "c", "d", "e", "f", "g", "h", "i", "j", "k", "l", "m",
       "n", "o", "p", "q", "r", "s", "t", "u", "v", "w", "x", "y", "z" >>

IndexIn(seq, c) == CHOOSE i \in 1..Len(seq) : seq[i] = c

Range(seq) == { seq[i] : i \in 1..Len(seq) }

DigitSet == Range(Digits)
UpperSet == Range(Uppers)
LowerSet == Range(Lowers)

\* The code points of the characters of file names: '.', '_', ASCII digits and
\* letters.
CodePoints ==
    [c \in {".", "_"} \cup DigitSet \cup UpperSet \cup LowerSet |->
        CASE c = "." -> 46
          [] c = "_" -> 95
          [] c \in DigitSet -> 47 + IndexIn(Digits, c)
          [] c \in UpperSet -> 64 + IndexIn(Uppers, c)
          [] c \in LowerSet -> 96 + IndexIn(Lowers, c)]

\* ord(c)
Ord(c) == CodePoints[c]

\* chr(n)
Chr(n) == CHOOSE c \in DOMAIN CodePoints : CodePoints[c] = n

\* \d of NUM_PREFIX_RE, on ASCII names.
IsDigit(c) == c \in DigitSet

\* str.lower() of one character.
LowerChar(c) == IF c \in UpperSet THEN Chr(Ord(c) + 32) ELSE c

\* str.lower()
Lower(s) == [k \in 1..Len(s) |-> LowerChar(s[k])]

\* Python's str < str: lexicographic by code point, a proper prefix first.
RECURSIVE StrLess(_, _)
StrLess(a, b) ==
    IF b = << >> THEN FALSE
    ELSE IF a = << >> THEN TRUE
    ELSE IF Ord(Head(a)) # Ord(Head(b)) THEN Ord(Head(a)) < Ord(Head(b))
    ELSE StrLess(Tail(a), Tail(b))

\* str(i) for i >= 0, as characters.
RECURSIVE Str(_)
Str(i) == IF i < 10 THEN << Chr(48 + i) >> ELSE Str(i \div 10) \o << Chr(48 + (i % 10)) >>

----------------------------------------------------------------------------
(* extract_sort_key                                                        *)

\* The length of the match of ^(\d+): the leading run of digits (0: no match).
RECURSIVE PrefixLen(_)
PrefixLen(name) ==
    IF name # << >> /\ IsDigit(Head(name)) THEN 1 + PrefixLen(Tail(name)) ELSE 0

\* int() of a string of digits.
RECURSIVE IntOf(_)
IntOf(digits) ==
    IF digits = << >> THEN 0
    ELSE 10 * IntOf(SubSeq(digits, 1, Len(digits) - 1)) + (Ord(digits[Len(digits)]) - 48)

\* 10**9, the first component of the key of a name without numeric prefix.
Sentinel == 1000000000

\* A key that ignores the numeric prefix: names sort as plain strings.
extract_sort_key_NameOnly(name) == << Sentinel, name >>

extract_sort_key(name) ==
    IF PrefixLen(name) > 0
    THEN << IntOf(SubSeq(name, 1, PrefixLen(name))), name >>
    ELSE << Sentinel, name >>

\* Python's tuple comparison of two (int, str) keys.
KeyLess(k1, k2) == k1[1] < k2[1] \/ (k1[1] = k2[1] /\ StrLess(k1[2], k2[2]))

----------------------------------------------------------------------------
(* gather_image_files                                                      *)

\* An entry of a directory: a regular file with its content, or a directory.
File(name, data) == [name |-> name, kind |-> "file", data |-> data]
Dir(name) == [name |-> name, kind |-> "dir", data |-> << >>]

IMG_EXTS ==
    { << ".", "j", "p", "g" >>, << ".", "j", "p", "e", "g" >>, << ".", "p", "n", "g" >>,
      << ".", "b", "m", "p" >>, << ".", "w", "e", "b", "p" >>, << ".", "t", "i", "f", "f" >> }

\* str.rfind('.'), 1-based; 0 when there is no dot.
RECURSIVE RFindDot(_)
RFindDot(name) ==
    IF name = << >> THEN 0
    ELSE IF name[Len(name)] = "." THEN Len(name)
    ELSE RFindDot(SubSeq(name, 1, Len(name) - 1))

\* PurePath.suffix: from the last dot on, unless that dot is the first or the
\* last character of the name.
Suffix(name) ==
    IF RFindDot(name) > 1 /\ RFindDot(name) < Len(name)
    THEN SubSeq(name, RFindDot(name), Len(name))
    ELSE << >>

\* p.is_file() and p.suffix.lower() in IMG_EXTS
IsImage(e) == e.kind = "file" /\ Lower(Suffix(e.name)) \in IMG_EXTS

\* One step of list.sort(key=...): e is placed behind every element whose key
\* is not greater than its own (the sort is stable).
RECURSIVE Insert(_, _)
Insert(sorted, e) ==
    IF sorted = << >> THEN << e >>
    ELSE IF KeyLess(extract_sort_key(e.name), extract_sort_key(Head(sorted).name))
         THEN << e >> \o sorted
         ELSE << Head(sorted) >> \o Insert(Tail(sorted), e)

RECURSIVE SortByKey(_)
SortByKey(files) ==
    IF files = << >> THEN << >>
    ELSE Insert(SortByKey(SubSeq(files, 1, Len(files) - 1)), files[Len(files)])

\* The images of a listing, in the listing's order, unsorted.
gather_image_files_Unsorted(listing) == SelectSeq(listing, IsImage)

\* listing: the entries of the folder in the order iterdir() yields them.
gather_image_files(listing) == SortByKey(SelectSeq(listing, IsImage))

\* Every order in which iterdir() can yield the entries of a directory.
RECURSIVE Listings(_)
Listings(entries) ==
    IF entries = {} THEN { << >> }
    ELSE UNION { { << e >> \o l : l \in Listings(entries \ {e}) } : e \in entries }

----------------------------------------------------------------------------
(* The filesystem                                                          *)

\* A folder of a task: absent, a regular file of that name, or a directory
\* with its entries (a set of File and Dir entries with distinct names).
Absent == [kind |-> "absent", entries |-> {}]
Plain == [kind |-> "file", entries |-> {}]
Folder(entries) == [kind |-> "dir", entries |-> entries]

\* An entry of the root: a task folder, or a regular file.
TaskNode(name, inputs, traj, rest) ==
    [name |-> name, kind |-> "dir", image_inputs |-> inputs, trajectory |-> traj,
     rest |-> rest]
FileNode(name) ==
    [name |-> name, kind |-> "file", image_inputs |-> Absent, trajectory |-> Absent,
     rest |-> {}]

\* Writing a regular file into a directory replaces an entry of that name.
WriteFile(entries, name, data) ==
    { e \in entries : e.name # name } \cup { File(name, data) }

RemoveEntry(entries, name) == { e \in entries : e.name # name }

----------------------------------------------------------------------------
(* process_task                                                            *)

\* A line of output.
Msg(tag, task, src, dest) == [tag |-> tag, task |-> task, src |-> src, dest |-> dest]

STEP == << "s", "t", "e", "p", "_" >>
SCREENSHOT == << "_", "s", "c", "r", "e", "e", "n", "s", "h", "o", "t" >>

\* A destination name that leaves the extension as the source spells it.
DestName_KeepCase(i, img) == STEP \o Str(i) \o SCREENSHOT \o Suffix(img.name)

\* ext = img_path.suffix.lower(); new_name = f"step_{i}_screenshot{ext}"
DestName(i, img) == STEP \o Str(i) \o SCREENSHOT \o Lower(Suffix(img.name))

\* A mkdir that creates nothing.
Mkdir_Nothing(node) == node

\* trajectory.mkdir(exist_ok=True), trajectory not being a regular file.
Mkdir(node) ==
    IF node.trajectory.kind = "dir" THEN node
    ELSE [node EXCEPT !.trajectory = Folder({})]

\* A copy that takes the source away.
Copy2_RemovesSource(node, i, img) ==
    [node EXCEPT !.trajectory.entries = WriteFile(@, DestName(i, img), img.data),
                 !.image_inputs.entries = RemoveEntry(@, img.name)]

\* shutil.copy2(src, dest) that returns: dest holds the content of src.
Copy2(node, i, img) ==
    [node EXCEPT !.trajectory.entries = WriteFile(@, DestName(i, img), img.data)]

\* shutil.move(src, dest) that returns: dest holds the content of src, and src
\* is gone.
Move(node, i, img) ==
    [node EXCEPT !.trajectory.entries = WriteFile(@, DestName(i, img), img.data),
                 !.image_inputs.entries = RemoveEntry(@, img.name)]

\* The body of the loop for the image at index i (lines 67-86).  faults holds the
\* paths <<task, name>> of the sources whose copy or move raises; the
\* exception is caught and reported, and nothing is transferred.
TransferOne(st, i, img, move, dry, faults) ==
    IF dry
    THEN [st EXCEPT !.out = @ \o << Msg(IF move THEN "dry-run move" ELSE "dry-run copy",
                                        st.node.name, img.name, DestName(i, img)) >>]
    ELSE IF << st.node.name, img.name >> \in faults
    THEN [st EXCEPT !.out = @ \o << Msg(IF move THEN "error moving" ELSE "error copying",
                                        st.node.name, img.name, DestName(i, img)) >>]
    ELSE IF move
    THEN [st EXCEPT !.node = Move(@, i, img)]
    ELSE [st EXCEPT !.node = Copy2(@, i, img)]

\* A loop that stops at the first transfer that raises.
RECURSIVE TransferFrom_AbortOnError(_, _, _, _, _, _)
TransferFrom_AbortOnError(st, images, i, move, dry, faults) ==
    IF i >= Len(images) THEN st
    ELSE IF ~dry /\ << st.node.name, images[i + 1].name >> \in faults
    THEN TransferOne(st, i, images[i + 1], move, dry, faults)
    ELSE TransferFrom_AbortOnError(TransferOne(st, i, images[i + 1], move, dry, faults),
                                   images, i + 1, move, dry, faults)

\* for i, img_path in enumerate(images), from index i on.
RECURSIVE TransferFrom(_, _, _, _, _, _)
TransferFrom(st, images, i, move, dry, faults) ==
    IF i >= Len(images) THEN st
    ELSE TransferFrom(TransferOne(st, i, images[i + 1], move, dry, faults),
                      images, i + 1, move, dry, faults)

\* Lines 90-97 without the emptiness test.
RemoveIfEmpty_Always(st, move, dry, faults) ==
    IF dry \/ ~move THEN st
    ELSE [st EXCEPT !.node.image_inputs = Absent,
                    !.out = @ \o << Msg("removed empty folder", st.node.name, << >>, << >>) >>]

\* Lines 90-97: after a move, image_inputs is removed when it has no entry
\* left.  faults holds <<task>> when rmdir raises; the exception is swallowed.
RemoveIfEmpty(st, move, dry, faults) ==
    IF dry \/ ~move THEN st
    ELSE IF st.node.image_inputs.entries # {} THEN st
    ELSE IF << st.node.name >> \in faults THEN st
    ELSE [st EXCEPT !.node.image_inputs = Absent,
                    !.out = @ \o << Msg("removed empty folder", st.node.name, << >>, << >>) >>]

\* Lines 56-58 creating trajectory/ in dry-run mode too.
EnsureTrajectory_IgnoreDryRun(node, dry) == Mkdir(node)

\* Lines 56-58: if not dry_run: trajectory.mkdir(exist_ok=True)
EnsureTrajectory(node, dry) == IF dry THEN node ELSE Mkdir(node)

\* process_task(task_folder, move_files, dry_run) on the task folder node, the
\* directory image_inputs being listed in the order listing.  The result is the
\* task folder afterwards, the lines printed, and whether an exception left
\* process_task (mkdir raises FileExistsError when trajectory is a regular file).
process_task(node, move, dry, faults, listing) ==
    IF node.image_inputs.kind # "dir"
    THEN [node |-> node, raised |-> FALSE,
          out |-> << Msg("skip no image_inputs", node.name, << >>, << >>) >>]
    ELSE IF ~dry /\ node.trajectory.kind = "file"
    THEN [node |-> node, raised |-> TRUE, out |-> << >>]
    ELSE IF gather_image_files(listing) = << >>
    THEN [node |-> EnsureTrajectory(node, dry), raised |-> FALSE,
          out |-> << Msg("skip no images", node.name, << >>, << >>) >>]
    ELSE RemoveIfEmpty(
             TransferFrom([node |-> EnsureTrajectory(node, dry), raised |-> FALSE,
                           out |-> << Msg("processing", node.name, << >>, << >>) >>],
                          gather_image_files(listing), 0, move, dry, faults),
             move, dry, faults)

----------------------------------------------------------------------------
(* main                                                                    *)

VARIABLES
    root,        \* the filesystem at dataset_root: [kind, entries]
    move_files,  \* args.move
    dry_run,     \* args.dry_run
    faulty,      \* the paths on which a file operation raises
    pc,          \* "start", "loop", "exit" (main returned), "crashed" (an exception left main)
    todo,        \* the rest of sorted(task_dirs)
    visited,     \* the task folders process_task was called on, in order
    out,         \* the lines printed by this run
    pre,         \* the filesystem when this run started
    rerun,       \* whether this run follows an earlier run on the same root
    listing,     \* a directory listing handed to gather_image_files on its own
    files        \* what gather_image_files returned for it

vars == << root, move_files, dry_run, faulty, pc, todo, visited, out, pre, rerun,
           listing, files >>

\* task_dirs = [p for p in root.iterdir() if p.is_dir()]
task_dirs(r) == { n \in r.entries : n.kind = "dir" }

\* The least name of a non-empty set of names.
MinName(names) == CHOOSE m \in names : \A n \in names \ {m} : StrLess(m, n)

\* sorted(task_dirs), as the names of the task folders.
RECURSIVE Sorted(_)
Sorted(names) ==
    IF names = {} THEN << >>
    ELSE << MinName(names) >> \o Sorted(names \ {MinName(names)})

\* The entry of the root with the given name.
NodeOf(r, name) == CHOOSE n \in r.entries : n.name = name

\* task.name.startswith('.')
IsHidden(name) == name # << >> /\ Head(name) = "."

\* Lines 108-111: the root is missing or not a directory.
RootMissing ==
    /\ pc = "start"
    /\ root.kind # "dir"
    /\ out' = out \o << Msg("dataset_root not found", << >>, << >>, << >>) >>
    /\ pc' = "exit"
    /\ UNCHANGED << root, move_files, dry_run, faulty, todo, visited, pre, rerun,
                    listing, files >>

\* Lines 113-116: the root has no subdirectory.
NoTasks ==
    /\ pc = "start"
    /\ root.kind = "dir"
    /\ task_dirs(root) = {}
    /\ out' = out \o << Msg("No task folders found", << >>, << >>, << >>) >>
    /\ pc' = "exit"
    /\ UNCHANGED << root, move_files, dry_run, faulty, todo, visited, pre, rerun,
                    listing, files >>

\* Lines 113-119: the task folders are enumerated and sorted.
Enumerate ==
    /\ pc = "start"
    /\ root.kind = "dir"
    /\ task_dirs(root) # {}
    /\ todo' = Sorted({ n.name : n \in task_dirs(root) })
    /\ out' = out \o << Msg("Found task folders", << >>, << >>, << >>) >>
    /\ pc' = "loop"
    /\ UNCHANGED << root, move_files, dry_run, faulty, visited, pre, rerun,
                    listing, files >>

\* Lines 119-122: a hidden directory is passed over.
SkipHidden ==
    /\ pc = "loop"
    /\ todo # << >>
    /\ IsHidden(Head(todo))
    /\ todo' = Tail(todo)
    /\ UNCHANGED << root, move_files, dry_run, faulty, pc, visited, out, pre, rerun,
                    listing, files >>

\* Lines 119-125: process_task on the next task folder, image_inputs being
\* listed in any order.  An exception that leaves process_task leaves main.
ProcessTask ==
    /\ pc = "loop"
    /\ todo # << >>
    /\ ~IsHidden(Head(todo))
    /\ \E l \in Listings(NodeOf(root, Head(todo)).image_inputs.entries) :
         LET node == NodeOf(root, Head(todo))
             res  == process_task(node, move_files, dry_run, faulty, l)
         IN  /\ root' = [root EXCEPT !.entries = (@ \ {node}) \cup {res.node}]
             /\ out' = out \o << Msg("Processing task folder", node.name, << >>, << >>) >>
                           \o res.out
             /\ visited' = Append(visited, node.name)
             /\ IF res.raised
                THEN pc' = "crashed" /\ todo' = todo
                ELSE pc' = pc /\ todo' = Tail(todo)
    /\ UNCHANGED << move_files, dry_run, faulty, pre, rerun, listing, files >>

\* Line 127: print("Done.")
Finish ==
    /\ pc = "loop"
    /\ todo = << >>
    /\ out' = out \o << Msg("Done.", << >>, << >>, << >>) >>
    /\ pc' = "exit"
    /\ UNCHANGED << root, move_files, dry_run, faulty, todo, visited, pre, rerun,
                    listing, files >>

\* The command is run again, with the same arguments, on the filesystem the
\* run before it left.
Rerun ==
    /\ pc \in {"exit", "crashed"}
    /\ pc' = "start"
    /\ todo' = << >>
    /\ visited' = << >>
    /\ out' = << >>
    /\ pre' = root
    /\ rerun' = TRUE
    /\ UNCHANGED << root, move_files, dry_run, faulty, listing, files >>

----------------------------------------------------------------------------
(* The filesystems and arguments the runs start from                       *)

\* The most entries the image_inputs folders of a root hold together.
MaxEntries == 2

\* The most paths on which a file operation raises.
MaxFaults == 1

\* The most entries of a listing handed to gather_image_files on its own.
MaxListing == 3

PNG == << ".", "p", "n", "g" >>
N2 == << "2" >> \o PNG
N10 == << "1", "0", ".", "P", "N", "G" >>
N1 == << "1" >> \o PNG
NOTES == << "n", "o", "t", "e", "s", ".", "t", "x", "t" >>
T2 == << "t", "2" >>
T10 == << "t", "1", "0" >>
HIDDEN == << ".", "h" >>
RUNLOG == << "r", "u", "n", ".", "l", "o", "g" >>
RESULT == << "r", "e", "s", "u", "l", "t", ".", "j", "s", "o", "n" >>
OLD == << "o", "l", "d" >>

\* What image_inputs of task t can hold: two images, a file that is no image,
\* and a directory named like an image.
InputEntries(t) ==
    { File(N2, << t, N2 >>), File(N10, << t, N10 >>), File(NOTES, << t, NOTES >>), Dir(N1) }

\* trajectory/ as an earlier run left it: step_0_screenshot.png, and a
\* step_1_screenshot.bmp that no image of InputEntries is written to.
OldTrajectory ==
    Folder({ File(STEP \o << "0" >> \o SCREENSHOT \o PNG, OLD),
             File(STEP \o << "1" >> \o SCREENSHOT \o << ".", "b", "m", "p" >>, OLD) })

\* The files of a task folder beside image_inputs/ and trajectory/.
Rest(t) == { File(t \o << ".", "l", "o", "g" >>, << t, OLD >>), File(RESULT, << t, RESULT >>) }

TaskNodes(t) ==
    { TaskNode(t, i, tr, Rest(t)) :
        i \in {Absent, Plain} \cup { Folder(S) : S \in SUBSET InputEntries(t) },
        tr \in {Absent, Plain, OldTrajectory} }

HiddenNode ==
    TaskNode(HIDDEN, Folder({ File(N2, << HIDDEN, N2 >>) }), Absent, Rest(HIDDEN))

EntryCount(entries) ==
    LET Count(n) == Cardinality(n.image_inputs.entries)
    IN  (IF \E n \in entries : n.name = T2 THEN Count(NodeOf([entries |-> entries], T2)) ELSE 0)
      + (IF \E n \in entries : n.name = T10 THEN Count(NodeOf([entries |-> entries], T10)) ELSE 0)

\* The root is missing, a regular file, a directory without subdirectory, or a
\* directory with a file, a hidden directory and up to two task folders.
Roots ==
    { Absent, Plain, Folder({ FileNode(RUNLOG) }) } \cup
    { Folder({ FileNode(RUNLOG), HiddenNode } \cup a \cup b) :
        a \in { {} } \cup { { n } : n \in { m \in TaskNodes(T2) :
                                             Cardinality(m.image_inputs.entries) <= MaxEntries } },
        b \in { {} } \cup { { n } : n \in { m \in TaskNodes(T10) :
                                             Cardinality(m.image_inputs.entries) <= MaxEntries } } }

\* The paths a file operation of the run can raise on: <<task, name>> for the
\* copy or move of an image, <<task>> for the rmdir of image_inputs.
FaultPaths(r) ==
    UNION { { << n.name, e.name >> : e \in { x \in n.image_inputs.entries : IsImage(x) } }
            \cup (IF n.image_inputs.kind = "dir" THEN { << n.name >> } ELSE {})
            : n \in { m \in r.entries : m.kind = "dir" /\ ~IsHidden(m.name) } }

Init ==
    /\ root \in { r \in Roots : EntryCount(r.entries) <= MaxEntries }
    /\ move_files \in BOOLEAN
    /\ dry_run \in BOOLEAN
    /\ faulty \in { F \in SUBSET FaultPaths(root) : Cardinality(F) <= MaxFaults }
    /\ pc = "start"
    /\ todo = << >>
    /\ visited = << >>
    /\ out = << >>
    /\ pre = root
    /\ rerun = FALSE
    /\ listing = << >>
    /\ files = << >>

Next ==
    \/ RootMissing
    \/ NoTasks
    \/ Enumerate
    \/ SkipHidden
    \/ ProcessTask
    \/ Finish
    \/ Rerun

Spec == Init /\ [][Next]_vars

----------------------------------------------------------------------------
(* gather_image_files on its own                                           *)

\* What a listing handed to gather_image_files can hold.
SortEntries ==
    { File(n, n) : n \in { N2, << "1", "0" >> \o PNG, << "7" >> \o PNG,
                           << "0", "0", "7" >> \o PNG,
                           << "2", "0", "0", "0", "0", "0", "0", "0", "0", "0" >> \o PNG,
                           << "b", "a", "n", "n", "e", "r" >> \o PNG,
                           << "Z", ".", "J", "P", "G" >>,
                           << "a", "_", "1", ".", "j", "p", "e", "g" >>,
                           NOTES } }

SortInit ==
    /\ listing \in UNION { Listings(S) :
                           S \in { X \in SUBSET SortEntries : Cardinality(X) <= MaxListing } }
    /\ files = << >>
    /\ pc = "gather"
    /\ root = Absent
    /\ move_files = FALSE
    /\ dry_run = FALSE
    /\ faulty = {}
    /\ todo = << >>
    /\ visited = << >>
    /\ out = << >>
    /\ pre = Absent
    /\ rerun = FALSE

\* images = gather_image_files(folder)
Gather ==
    /\ pc = "gather"
    /\ files' = gather_image_files(listing)
    /\ pc' = "gathered"
    /\ UNCHANGED << root, move_files, dry_run, faulty, todo, visited, out, pre, rerun,
                    listing >>

SortNext == Gather

SortSpec == SortInit /\ [][SortNext]_vars

----------------------------------------------------------------------------
(* What the properties speak of                                            *)

\* The task folders of the root as this run found it.
Tasks == IF pre.kind = "dir" THEN { n.name : n \in task_dirs(pre) } ELSE {}

Before(t) == NodeOf(pre, t)
Now(t) == NodeOf(root, t)

\* process_task was called on t in this run.
Called(t) == \E k \in 1..Len(visited) : visited[k] = t

\* process_task was called on t in this run and has returned.
Returned(t) ==
    \E k \in 1..Len(visited) : visited[k] = t /\ ~(pc = "crashed" /\ k = Len(visited))

\* The images of t in sorted order, as this run found them.
Images(t) ==
    gather_image_files(CHOOSE l \in Listings(Before(t).image_inputs.entries) : TRUE)

\* step_{i}_screenshot followed by the lower-cased extension of name.
StepName(i, name) == STEP \o Str(i) \o SCREENSHOT \o Lower(Suffix(name))

\* The transfer of the image name of task t raises.
Fails(t, name) == << t, name >> \in faulty

Printed(m) == \E k \in 1..Len(out) : out[k] = m

HasPrefix(name) == name # << >> /\ IsDigit(Head(name))

PrefixValue(name) == IntOf(SubSeq(name, 1, PrefixLen(name)))

----------------------------------------------------------------------------
(* Properties                                                              *)

\* C1: after process_task has returned, not in dry-run mode, on a task with
\* N >= 1 gathered images none of whose transfers raised, trajectory/ is what
\* it was with exactly N files written: the file for the image at position i
\* of the sorted order is named step_{i}_screenshot plus the lower-cased
\* extension and holds that image's content, and the N names are distinct.
C1_DestinationNames ==
    \A t \in Tasks :
        (/\ ~dry_run
         /\ Returned(t)
         /\ Before(t).image_inputs.kind = "dir"
         /\ Images(t) # << >>
         /\ \A i \in 1..Len(Images(t)) : ~Fails(t, Images(t)[i].name))
        => LET imgs    == Images(t)
               names   == { StepName(i - 1, imgs[i].name) : i \in 1..Len(imgs) }
               written == { File(StepName(i - 1, imgs[i].name), imgs[i].data) :
                              i \in 1..Len(imgs) }
           IN  /\ Cardinality(names) = Len(imgs)
               /\ Cardinality(written) = Len(imgs)
               /\ Now(t).trajectory.kind = "dir"
               /\ Now(t).trajectory.entries =
                      { e \in Before(t).trajectory.entries : e.name \notin names }
                      \cup written

\* A task with two images, one of them spelled .PNG, has been transferred
\* into a trajectory/ that held files of an earlier run.
C1_Witness ==
    /\ pc = "exit"
    /\ ~dry_run
    /\ ~rerun
    /\ faulty = {}
    /\ T2 \in Tasks
    /\ Returned(T2)
    /\ Before(T2).image_inputs = Folder(InputEntries(T2) \ { Dir(N1), File(NOTES, << T2, NOTES >>) })
    /\ Before(T2).trajectory = OldTrajectory
    /\ File(StepName(1, N10), << T2, N10 >>) \in Now(T2).trajectory.entries

\* C2: of two gathered names that both start with digits, the one with the
\* smaller integer value of the leading digit run comes first, and with equal
\* values the lexicographically smaller name; the result holds every image of
\* the listing once and is the same for every order of the listing.
C2_NumericOrder ==
    pc = "gathered" =>
        /\ \A i, j \in 1..Len(files) :
             (i < j /\ HasPrefix(files[i].name) /\ HasPrefix(files[j].name))
             => \/ PrefixValue(files[i].name) < PrefixValue(files[j].name)
                \/ /\ PrefixValue(files[i].name) = PrefixValue(files[j].name)
                   /\ StrLess(files[i].name, files[j].name)
        /\ Range(files) = { e \in Range(listing) : IsImage(e) }
        /\ Len(files) = Cardinality(Range(files))
        /\ \A l \in Listings(Range(listing)) : gather_image_files(l) = files

\* 10.png, 7.png and 007.png, listed in that order, have been sorted.
C2_Witness ==
    /\ pc = "gathered"
    /\ listing = << File(<< "1", "0" >> \o PNG, << "1", "0" >> \o PNG),
                    File(<< "7" >> \o PNG, << "7" >> \o PNG),
                    File(<< "0", "0", "7" >> \o PNG, << "0", "0", "7" >> \o PNG) >>
    /\ files = << listing[3], listing[2], listing[1] >>

\* C3: every gathered name without a leading digit comes after every gathered
\* name with one, whatever the value of the prefix, and the names without a
\* leading digit are in lexicographic order among themselves.
C3_UnprefixedLast ==
    pc = "gathered" =>
        \A i, j \in 1..Len(files) :
            /\ (HasPrefix(files[i].name) /\ ~HasPrefix(files[j].name)) => i < j
            /\ (i < j /\ ~HasPrefix(files[i].name) /\ ~HasPrefix(files[j].name))
               => StrLess(files[i].name, files[j].name)

\* C4: in copy mode image_inputs of every task folder is, at every moment of
\* the run, what it was before (the folder, the names, the contents), and so
\* are the files beside image_inputs/ and trajectory/; once process_task has
\* returned, the destination of every image whose copy did not raise holds
\* the content of its source.
C4_CopyKeepsSources ==
    (~move_files /\ ~dry_run) =>
        \A t \in Tasks :
            /\ Now(t).image_inputs = Before(t).image_inputs
            /\ Now(t).rest = Before(t).rest
            /\ (Returned(t) /\ Before(t).image_inputs.kind = "dir")
               => \A i \in 1..Len(Images(t)) :
                      ~Fails(t, Images(t)[i].name)
                      => File(StepName(i - 1, Images(t)[i].name), Images(t)[i].data)
                             \in Now(t).trajectory.entries

\* A first run in copy mode has copied the one image of a task that also
\* holds a file that is no image.
C4_Witness ==
    /\ pc = "exit"
    /\ ~move_files
    /\ ~dry_run
    /\ ~rerun
    /\ T10 \in Tasks
    /\ Returned(T10)
    /\ Before(T10).image_inputs =
           Folder({ File(N10, << T10, N10 >>), File(NOTES, << T10, NOTES >>) })
    /\ Before(T10).trajectory = Absent
    /\ Now(T10).trajectory = Folder({ File(StepName(0, N10), << T10, N10 >>) })

\* C5, as claimed: in move mode, after process_task has returned on a task
\* whose image_inputs is a directory, no image remains in image_inputs, every
\* destination holds the content of the image of its position, and
\* image_inputs is gone if it has no entry left and kept otherwise.
C5_MoveAsClaimed ==
    (move_files /\ ~dry_run) =>
        \A t \in Tasks :
            (Returned(t) /\ Before(t).image_inputs.kind = "dir")
            => /\ \A e \in Now(t).image_inputs.entries : ~IsImage(e)
               /\ \A i \in 1..Len(Images(t)) :
                      File(StepName(i - 1, Images(t)[i].name), Images(t)[i].data)
                          \in Now(t).trajectory.entries
               /\ Now(t).image_inputs.kind \in {"dir", "absent"}
               /\ Now(t).image_inputs.kind = "dir" <=> Now(t).image_inputs.entries # {}

\* C5, amended: in move mode, after process_task has returned on a task with
\* N >= 1 gathered images none of whose moves raised, no image remains in
\* image_inputs, every destination holds the content of the image of its
\* position, and image_inputs is kept with its other entries if any remains;
\* if none remains it is gone, unless its removal raised, and then it is kept,
\* empty.
C5_MoveAmended ==
    (move_files /\ ~dry_run) =>
        \A t \in Tasks :
            (/\ Returned(t)
             /\ Before(t).image_inputs.kind = "dir"
             /\ Images(t) # << >>
             /\ \A i \in 1..Len(Images(t)) : ~Fails(t, Images(t)[i].name))
            => LET left == { e \in Before(t).image_inputs.entries : ~IsImage(e) }
               IN  /\ \A i \in 1..Len(Images(t)) :
                          File(StepName(i - 1, Images(t)[i].name), Images(t)[i].data)
                              \in Now(t).trajectory.entries
                   /\ Now(t).image_inputs.entries = left
                   /\ Now(t).image_inputs =
                          IF left = {} /\ << t >> \notin faulty THEN Absent ELSE Folder(left)

\* A first run in move mode has moved the one image of a task and kept
\* image_inputs for the file that is no image.
C5_Witness ==
    /\ pc = "exit"
    /\ move_files
    /\ ~dry_run
    /\ ~rerun
    /\ T2 \in Tasks
    /\ Returned(T2)
    /\ Before(T2).image_inputs =
           Folder({ File(N2, << T2, N2 >>), File(NOTES, << T2, NOTES >>) })
    /\ Now(T2).image_inputs = Folder({ File(NOTES, << T2, NOTES >>) })
    /\ File(StepName(0, N2), << T2, N2 >>) \in Now(T2).trajectory.entries

\* C6: in dry-run mode, with or without --move, the filesystem under the root
\* is at every moment of the run what it was when the run started.
C6_DryRunChangesNothing == dry_run => root = pre

\* A dry run of a move has reported the planned move of an image of a task
\* without trajectory/, and is done.
C6_Witness ==
    /\ pc = "exit"
    /\ dry_run
    /\ move_files
    /\ T2 \in Tasks
    /\ Before(T2).trajectory = Absent
    /\ Printed(Msg("dry-run move", T2, N2, StepName(0, N2)))
    /\ Printed(Msg("Done.", << >>, << >>, << >>))

\* C7: when a run in copy mode that followed an earlier run on the same root
\* has ended, trajectory/ of every task folder is what the earlier run left.
C7_CopyIdempotent ==
    (~move_files /\ ~dry_run /\ rerun /\ pc \in {"exit", "crashed"}) =>
        \A t \in Tasks : Now(t).trajectory = Before(t).trajectory

\* A second run in copy mode has ended on a task with two images, whose
\* trajectory/ the first run had filled.
C7_Witness ==
    /\ pc = "exit"
    /\ ~move_files
    /\ ~dry_run
    /\ rerun
    /\ T2 \in Tasks
    /\ Returned(T2)
    /\ Len(Images(T2)) = 2
    /\ faulty = {}
    /\ File(StepName(0, N2), << T2, N2 >>) \in Before(T2).trajectory.entries
    /\ File(StepName(1, N10), << T2, N10 >>) \in Before(T2).trajectory.entries

\* C8: not in dry-run mode, once process_task has been called on a task whose
\* image_inputs is a directory and whose trajectory is no regular file, it has
\* returned; for every image whose transfer raised the error is reported and
\* the destination of its index is what it was before, and every other image,
\* before or after it, is at the destination of its own index.
C8_FailureIsolation ==
    ~dry_run =>
        \A t \in Tasks :
            (/\ Called(t)
             /\ Before(t).image_inputs.kind = "dir"
             /\ Before(t).trajectory.kind # "file")
            => /\ Returned(t)
               /\ \A i \in 1..Len(Images(t)) :
                    LET img  == Images(t)[i]
                        dest == StepName(i - 1, img.name)
                    IN  IF Fails(t, img.name)
                        THEN /\ Printed(Msg(IF move_files THEN "error moving"
                                                          ELSE "error copying",
                                            t, img.name, dest))
                             /\ { e \in Now(t).trajectory.entries : e.name = dest }
                                  = { e \in Before(t).trajectory.entries : e.name = dest }
                             /\ img \in Now(t).image_inputs.entries
                        ELSE File(dest, img.data) \in Now(t).trajectory.entries

\* The transfer of the first of two images raised, and the second is at
\* step_1 while step_0 is the file of an earlier run.
C8_Witness ==
    /\ ~dry_run
    /\ ~rerun
    /\ T2 \in Tasks
    /\ Returned(T2)
    /\ Len(Images(T2)) = 2
    /\ Fails(T2, N2)
    /\ Before(T2).trajectory = OldTrajectory
    /\ File(StepName(0, N2), OLD) \in Now(T2).trajectory.entries
    /\ File(StepName(1, N10), << T2, N10 >>) \in Now(T2).trajectory.entries

\* C9: no exception leaves main; and when main has returned on a root with a
\* subdirectory, process_task has been called once on every subdirectory that
\* is not hidden, in ascending order of the names, and Done. is printed.
C9_NoErrorAbortsTheRun ==
    /\ pc # "crashed"
    /\ (pc = "exit" /\ Tasks # {})
       => /\ visited = Sorted({ t \in Tasks : ~IsHidden(t) })
          /\ Printed(Msg("Done.", << >>, << >>, << >>))

\* C10: not in dry-run mode, after process_task has returned on a task without
\* a directory image_inputs, the task folder is what it was and has no new
\* trajectory/; on a task with a directory image_inputs, trajectory/ is a
\* directory, and if no image was gathered the task is reported as skipped,
\* nothing else has changed, and image_inputs is kept, in move mode and empty
\* too.
C10_SkipOutcomes ==
    ~dry_run =>
        \A t \in Tasks :
            Returned(t) =>
                IF Before(t).image_inputs.kind # "dir"
                THEN /\ Now(t) = Before(t)
                     /\ Printed(Msg("skip no image_inputs", t, << >>, << >>))
                ELSE /\ Now(t).trajectory.kind = "dir"
                     /\ Images(t) = << >>
                        => /\ Printed(Msg("skip no images", t, << >>, << >>))
                           /\ Now(t).image_inputs = Before(t).image_inputs
                           /\ Now(t).rest = Before(t).rest
                           /\ Now(t).trajectory =
                                  IF Before(t).trajectory.kind = "dir"
                                  THEN Before(t).trajectory ELSE Folder({})

\* A run in move mode has skipped a task whose image_inputs is an empty
\* directory: trajectory/ was created and image_inputs is still there.
C10_Witness ==
    /\ pc = "exit"
    /\ move_files
    /\ ~dry_run
    /\ ~rerun
    /\ T2 \in Tasks
    /\ Returned(T2)
    /\ Before(T2).image_inputs = Folder({})
    /\ Before(T2).trajectory = Absent
    /\ Now(T2).trajectory = Folder({})
    /\ Now(T2).image_inputs = Folder({})

=============================================================================
